---- MODULE Spec2Model ----
(***************************************************************************)
(* Model of src/main.py: the DataConnector facade over a PostgreSQL        *)
(* connection, a Redis client and an S3 client, and the driver loop main() *)
(* that uses it.                                                           *)
(*                                                                         *)
(* Two specifications share the facade operations:                         *)
(*   Spec        one facade called by an arbitrary caller, any operation   *)
(*               in any order with any input;                              *)
(*   DriverSpec  the loop of main(), one statement per step.               *)
(*                                                                         *)
(* Every call into a client library is a nondeterministic choice between   *)
(* returning and raising, except close(), which releases local resources   *)
(* and is taken to return.  Values produced by the services (rows, cached  *)
(* values) are nondeterministic inputs.                                    *)
(***************************************************************************)
EXTENDS Integers, Sequences, FiniteSets, TLC

\* Number of distinct client objects the model can tell apart.
MaxConns == 2

\* Python's None, the value of a handle that holds no client object.
None == 0

\* Identities of the client objects created by the connect operations.
Ids == 1..MaxConns

VARIABLES
    postgres_conn,   \* self.postgres_conn: None or the id of a connection
    redis_client,    \* self.redis_client: None or the id of a client
    s3_client,       \* self.s3_client: None or the id of a client
    open_pg,         \* relational connections opened and not yet closed
    open_redis,      \* cache clients constructed and not yet closed
    connectCalled,   \* services whose connect was called on this facade
    last,            \* the facade call that returned last, as observed
    pc,              \* main(): the statement to execute next
    pg_status,       \* main(): local pg_status
    redis_status,    \* main(): local redis_status
    s3_status,       \* main(): local s3_status
    iterOps          \* main(): facade calls made in this iteration

facadeVars == <<postgres_conn, redis_client, s3_client, open_pg, open_redis,
                connectCalled, last>>
driverVars == <<pc, pg_status, redis_status, s3_status, iterOps>>
vars == <<postgres_conn, redis_client, s3_client, open_pg, open_redis,
          connectCalled, last, pc, pg_status, redis_status, s3_status,
          iterOps>>

----------------------------------------------------------------------------
(* Strings are sequences of one-character strings.                         *)

Lower ==
  <<"a","b","c","d","e","f","g","h","i","j","k","l","m",
    "n","o","p","q","r","s","t","u","v","w","x","y","z">>

Capital ==
  <<"A","B","C","D","E","F","G","H","I","J","K","L","M",
    "N","O","P","Q","R","S","T","U","V","W","X","Y","Z">>

\* str.upper() on one character.
UpperChar(c) ==
  IF \E i \in 1..26 : Lower[i] = c
  THEN Capital[CHOOSE i \in 1..26 : Lower[i] = c]
  ELSE c

\* str.upper()
Upper(s) == [i \in 1..Len(s) |-> UpperChar(s[i])]

\* The characters str.strip() removes.
IsSpace(c) == c \in {" ", "\t", "\n"}

\* Index of the first character that is not white space, Len(s)+1 if none.
FirstInk(s) ==
  IF \E i \in 1..Len(s) : ~IsSpace(s[i])
  THEN CHOOSE i \in 1..Len(s) :
         ~IsSpace(s[i]) /\ \A j \in 1..(i-1) : IsSpace(s[j])
  ELSE Len(s) + 1

\* Index of the last character that is not white space, 0 if none.
LastInk(s) ==
  IF \E i \in 1..Len(s) : ~IsSpace(s[i])
  THEN CHOOSE i \in 1..Len(s) :
         ~IsSpace(s[i]) /\ \A j \in (i+1)..Len(s) : IsSpace(s[j])
  ELSE 0

\* str.strip(): white space removed at both ends.
Strip(s) == SubSeq(s, FirstInk(s), LastInk(s))

\* str.startswith(prefix)
StartsWith(s, prefix) ==
  /\ Len(s) >= Len(prefix)
  /\ SubSeq(s, 1, Len(prefix)) = prefix

SELECT == <<"S","E","L","E","C","T">>

\* Variant of IsSelectQuery that compares case-sensitively.
IsSelectQueryCaseSensitive(query) == StartsWith(Strip(query), SELECT)

\* query.strip().upper().startswith("SELECT")
IsSelectQuery(query) == StartsWith(Upper(Strip(query)), SELECT)

\* os.path.basename on a POSIX path: what follows the last "/".
Basename(p) ==
  IF \E i \in 1..Len(p) : p[i] = "/"
  THEN SubSeq(p,
              (CHOOSE i \in 1..Len(p) :
                 p[i] = "/" /\ \A j \in (i+1)..Len(p) : p[j] # "/") + 1,
              Len(p))
  ELSE p

----------------------------------------------------------------------------
(* The literals of main().                                                 *)

CreateQuery ==
  <<
    "\n"," "," "," "," "," "," "," "," "," "," "," "," "," "," "," "," ","C",
    "R","E","A","T","E"," ","T","A","B","L","E"," ","I","F"," ","N","O","T",
    " ","E","X","I","S","T","S"," ","e","x","a","m","p","l","e","s"," ","(",
    "\n"," "," "," "," "," "," "," "," "," "," "," "," "," "," "," "," "," ",
    " "," "," ","i","d"," ","S","E","R","I","A","L"," ","P","R","I","M","A",
    "R","Y"," ","K","E","Y",",","\n"," "," "," "," "," "," "," "," "," "," ",
    " "," "," "," "," "," "," "," "," "," ","n","a","m","e"," ","V","A","R",
    "C","H","A","R","(","1","0","0",")"," ","N","O","T"," ","N","U","L","L",
    ",","\n"," "," "," "," "," "," "," "," "," "," "," "," "," "," "," "," ",
    " "," "," "," ","c","r","e","a","t","e","d","_","a","t"," ","T","I","M",
    "E","S","T","A","M","P"," ","D","E","F","A","U","L","T"," ","C","U","R",
    "R","E","N","T","_","T","I","M","E","S","T","A","M","P","\n"," "," "," ",
    " "," "," "," "," "," "," "," "," "," "," "," "," ",")","\n"," "," "," ",
    " "," "," "," "," "," "," "," "," " >>
InsertQuery ==
  <<
    "I","N","S","E","R","T"," ","I","N","T","O"," ","e","x","a","m","p","l",
    "e","s"," ","(","n","a","m","e",")"," ","V","A","L","U","E","S"," ","(",
    "%","s",")" >>
SelectQuery ==
  <<
    "S","E","L","E","C","T"," ","*"," ","F","R","O","M"," ","e","x","a","m",
    "p","l","e","s" >>
TestFile ==
  <<
    "t","e","s","t","_","f","i","l","e",".","t","x","t" >>
DownloadedFile ==
  <<
    "d","o","w","n","l","o","a","d","e","d","_","t","e","s","t","_","f","i",
    "l","e",".","t","x","t" >>

----------------------------------------------------------------------------
(* Values returned by the facade and inputs given to it.                   *)

RNone == [kind |-> "None", val |-> <<>>]
RTrue == [kind |-> "True", val |-> <<>>]
RFalse == [kind |-> "False", val |-> <<>>]
RRows(rows) == [kind |-> "rows", val |-> rows]
RValue(v) == [kind |-> "value", val |-> <<v>>]
RRaised == [kind |-> "raised", val |-> <<>>]

\* Statements an arbitrary caller passes to execute_postgres_query.
Queries ==
  { <<"S","E","L","E","C","T"," ","1">>,
    <<" ","s","e","l","e","c","t"," ","1">>,
    <<"S","e","l","e","c","t">>,
    <<"\n","\t","S","E","L","E","C","T">>,
    <<"S","E","L","E","C","T","E","D">>,
    <<"S","E","L","E","C">>,
    <<"x","S","E","L","E","C","T">>,
    <<"U","P","D","A","T","E"," ","t">>,
    << >> }

\* Results cursor.fetchall() can hand back.
RowSets == { << >>, <<"row1", "row2">> }

\* What redis_client.get can hand back: a value, or None for a missing key.
CacheReplies == { RValue("example_value"), RNone }

\* file_path arguments: path strings, and None as a value that is no path.
PathArg(chars) == [isPath |-> TRUE, chars |-> chars]
NoPath == [isPath |-> FALSE, chars |-> <<>>]
FilePaths ==
  { PathArg(TestFile), PathArg(<<"d","/","f",".","t","x","t">>),
    PathArg(<<"d","/">>), NoPath }

\* object_name arguments of upload_to_s3; NoName is the default None.
NoName == [given |-> FALSE, chars |-> <<>>]
Name(chars) == [given |-> TRUE, chars |-> chars]
ObjectNames == { NoName, Name(<<"o">>) }

Handles == [pg |-> postgres_conn, redis |-> redis_client, s3 |-> s3_client]

\* The observation of one facade call: its name, the handles before it, the
\* client calls it made in order, how the last of them ended, what the call
\* returned and whether an exception left the facade.
Observe(op, calls, outcome, result, query, object) ==
  [op |-> op, pre |-> Handles, calls |-> calls, outcome |-> outcome,
   result |-> result, raised |-> (result = RRaised), query |-> query,
   object |-> object]

\* The client object a constructor returns: one that is neither open nor
\* still referenced by the handle it is about to replace.
Unused(open, handle) == Ids \ (open \cup {handle})
Fresh(open, handle) ==
  CHOOSE i \in Unused(open, handle) : \A j \in Unused(open, handle) : i <= j

----------------------------------------------------------------------------
(* DataConnector                                                           *)

\* __init__: all three handles None.
DataConnector ==
  /\ postgres_conn' = None
  /\ redis_client' = None
  /\ s3_client' = None
  /\ connectCalled' = {}
  /\ last' = [Observe("__init__", <<>>, "ok", RNone, <<>>, <<>>)
                EXCEPT !.pre = [pg |-> None, redis |-> None, s3 |-> None]]
  /\ UNCHANGED <<open_pg, open_redis>>

\* connect_postgres: psycopg2.connect returns a connection that is assigned
\* to the handle, or raises before the assignment.
connect_postgres(outcome) ==
  /\ outcome \in {"ok", "connect_fail"}
  /\ connectCalled' = connectCalled \cup {"postgres"}
  /\ IF outcome = "ok"
     THEN /\ Unused(open_pg, postgres_conn) # {}
          /\ postgres_conn' = Fresh(open_pg, postgres_conn)
          /\ open_pg' = open_pg \cup {Fresh(open_pg, postgres_conn)}
          /\ last' = Observe("connect_postgres", <<"psycopg2.connect">>,
                             outcome, RTrue, <<>>, <<>>)
     ELSE /\ UNCHANGED <<postgres_conn, open_pg>>
          /\ last' = Observe("connect_postgres", <<"psycopg2.connect">>,
                             outcome, RFalse, <<>>, <<>>)
  /\ UNCHANGED <<redis_client, s3_client, open_redis>>

\* connect_redis: redis.Redis(...) is assigned to the handle, then ping()
\* probes it.  int(os.getenv(...)) or the constructor can raise before the
\* assignment; ping() raises after it.
connect_redis(outcome) ==
  /\ outcome \in {"ok", "construct_fail", "ping_fail"}
  /\ connectCalled' = connectCalled \cup {"redis"}
  /\ IF outcome = "construct_fail"
     THEN /\ UNCHANGED <<redis_client, open_redis>>
          /\ last' = Observe("connect_redis", <<"redis.Redis">>, outcome,
                             RFalse, <<>>, <<>>)
     ELSE /\ Unused(open_redis, redis_client) # {}
          /\ redis_client' = Fresh(open_redis, redis_client)
          /\ open_redis' = open_redis \cup {Fresh(open_redis, redis_client)}
          /\ last' = Observe("connect_redis", <<"redis.Redis", "ping">>,
                             outcome,
                             IF outcome = "ok" THEN RTrue ELSE RFalse,
                             <<>>, <<>>)
  /\ UNCHANGED <<postgres_conn, s3_client, open_pg>>

\* connect_s3: boto3.client(...) is assigned to the handle, then
\* list_buckets() probes it.
connect_s3(outcome) ==
  /\ outcome \in {"ok", "construct_fail", "list_fail"}
  /\ connectCalled' = connectCalled \cup {"s3"}
  /\ IF outcome = "construct_fail"
     THEN /\ UNCHANGED s3_client
          /\ last' = Observe("connect_s3", <<"boto3.client">>, outcome,
                             RFalse, <<>>, <<>>)
     ELSE /\ s3_client' = Fresh({}, s3_client)
          /\ last' = Observe("connect_s3", <<"boto3.client", "list_buckets">>,
                             outcome,
                             IF outcome = "ok" THEN RTrue ELSE RFalse,
                             <<>>, <<>>)
  /\ UNCHANGED <<postgres_conn, redis_client, open_pg, open_redis>>

\* execute_postgres_query: the guard on the handle, then cursor(), execute(),
\* and fetchall() for a SELECT or commit() for anything else, all inside one
\* try block.  A closed connection raises in cursor().
execute_postgres_query(query, outcome, rows) ==
  /\ outcome \in {"ok", "cursor_fail", "execute_fail", "finish_fail"}
  /\ postgres_conn \in open_pg \/ outcome = "cursor_fail"
  /\ last' =
       IF postgres_conn = None
       THEN Observe("execute_postgres_query", <<>>, "not_connected", RNone,
                    query, <<>>)
       ELSE IF outcome = "cursor_fail"
       THEN Observe("execute_postgres_query", <<"cursor">>, outcome, RNone,
                    query, <<>>)
       ELSE IF outcome = "execute_fail"
       THEN Observe("execute_postgres_query", <<"cursor", "execute">>,
                    outcome, RNone, query, <<>>)
       ELSE IF IsSelectQuery(query)
       THEN IF outcome = "finish_fail"
            THEN Observe("execute_postgres_query",
                         <<"cursor", "execute", "fetchall">>, outcome, RNone,
                         query, <<>>)
            ELSE Observe("execute_postgres_query",
                         <<"cursor", "execute", "fetchall", "cursor.close">>,
                         outcome, RRows(rows), query, <<>>)
       ELSE IF outcome = "finish_fail"
            THEN Observe("execute_postgres_query",
                         <<"cursor", "execute", "commit">>, outcome, RNone,
                         query, <<>>)
            ELSE Observe("execute_postgres_query",
                         <<"cursor", "execute", "commit", "cursor.close">>,
                         outcome, RTrue, query, <<>>)
  /\ UNCHANGED <<postgres_conn, redis_client, s3_client, open_pg, open_redis,
                 connectCalled>>

\* set_redis_value: the guard on the handle, then redis_client.set.
set_redis_value(key, value, expiry, outcome) ==
  /\ outcome \in {"ok", "set_fail"}
  /\ last' =
       IF redis_client = None
       THEN Observe("set_redis_value", <<>>, "not_connected", RFalse,
                    <<>>, <<>>)
       ELSE Observe("set_redis_value", <<"set">>, outcome,
                    IF outcome = "ok" THEN RTrue ELSE RFalse, <<>>, <<>>)
  /\ UNCHANGED <<postgres_conn, redis_client, s3_client, open_pg, open_redis,
                 connectCalled>>

\* Variant of get_redis_value without the guard on the handle.
get_redis_value_unguarded(key, outcome, reply) ==
  /\ outcome \in {"ok", "get_fail"}
  /\ last' = Observe("get_redis_value", <<"get">>, outcome,
                     IF outcome = "ok" THEN reply ELSE RNone, <<>>, <<>>)
  /\ UNCHANGED <<postgres_conn, redis_client, s3_client, open_pg, open_redis,
                 connectCalled>>

\* get_redis_value: the guard on the handle, then redis_client.get.
get_redis_value(key, outcome, reply) ==
  /\ outcome \in {"ok", "get_fail"}
  /\ last' =
       IF redis_client = None
       THEN Observe("get_redis_value", <<>>, "not_connected", RNone,
                    <<>>, <<>>)
       ELSE Observe("get_redis_value", <<"get">>, outcome,
                    IF outcome = "ok" THEN reply ELSE RNone, <<>>, <<>>)
  /\ UNCHANGED <<postgres_conn, redis_client, s3_client, open_pg, open_redis,
                 connectCalled>>

\* upload_to_s3: the guard on the handle; the default object name computed
\* by os.path.basename before the try block, which raises TypeError when
\* file_path is no path; then s3_client.upload_file inside the try block.
upload_to_s3(file_path, bucket_name, object_name, outcome) ==
  /\ outcome \in {"ok", "upload_fail"}
  /\ last' =
       IF s3_client = None
       THEN Observe("upload_to_s3", <<>>, "not_connected", RFalse,
                    <<>>, <<>>)
       ELSE IF ~object_name.given /\ ~file_path.isPath
       THEN Observe("upload_to_s3", <<>>, "basename_fail", RRaised,
                    <<>>, <<>>)
       ELSE Observe("upload_to_s3", <<"upload_file">>, outcome,
                    IF outcome = "ok" THEN RTrue ELSE RFalse, <<>>,
                    IF object_name.given THEN object_name.chars
                    ELSE Basename(file_path.chars))
  /\ UNCHANGED <<postgres_conn, redis_client, s3_client, open_pg, open_redis,
                 connectCalled>>

\* download_from_s3: the guard on the handle, then s3_client.download_file.
download_from_s3(bucket_name, object_name, file_path, outcome) ==
  /\ outcome \in {"ok", "download_fail"}
  /\ last' =
       IF s3_client = None
       THEN Observe("download_from_s3", <<>>, "not_connected", RFalse,
                    <<>>, <<>>)
       ELSE Observe("download_from_s3", <<"download_file">>, outcome,
                    IF outcome = "ok" THEN RTrue ELSE RFalse, <<>>,
                    object_name)
  /\ UNCHANGED <<postgres_conn, redis_client, s3_client, open_pg, open_redis,
                 connectCalled>>

\* The close() calls close_connections makes, in order.
CloseCalls ==
  (IF postgres_conn # None THEN <<"postgres_conn.close">> ELSE <<>>)
  \o (IF redis_client # None THEN <<"redis_client.close">> ELSE <<>>)

\* Variant of close_connections that also drops the object-store client.
close_connections_all_three ==
  /\ open_pg' = open_pg \ {postgres_conn}
  /\ open_redis' = open_redis \ {redis_client}
  /\ s3_client' = None
  /\ last' = Observe("close_connections", CloseCalls, "ok", RNone, <<>>, <<>>)
  /\ UNCHANGED <<postgres_conn, redis_client, connectCalled>>

\* Variant of close_connections that closes the relational connection only.
close_connections_postgres_only ==
  /\ open_pg' = open_pg \ {postgres_conn}
  /\ last' = Observe("close_connections",
                     IF postgres_conn # None THEN <<"postgres_conn.close">>
                     ELSE <<>>, "ok", RNone, <<>>, <<>>)
  /\ UNCHANGED <<postgres_conn, redis_client, s3_client, open_redis,
                 connectCalled>>

\* close_connections: close() on the relational connection if the handle is
\* set, close() on the cache client if the handle is set; no handle is
\* assigned, and the object-store client is not touched.
close_connections ==
  /\ open_pg' = open_pg \ {postgres_conn}
  /\ open_redis' = open_redis \ {redis_client}
  /\ last' = Observe("close_connections", CloseCalls, "ok", RNone, <<>>, <<>>)
  /\ UNCHANGED <<postgres_conn, redis_client, s3_client, connectCalled>>

----------------------------------------------------------------------------
(* An arbitrary caller of one facade.                                      *)

Keys == {"example_key"}
Values == {"example_value"}
Expiries == {None, 3600}
Buckets == {"example-bucket"}

FacadeInit ==
  /\ postgres_conn = None
  /\ redis_client = None
  /\ s3_client = None
  /\ open_pg = {}
  /\ open_redis = {}
  /\ connectCalled = {}
  /\ last = [op |-> "__init__",
             pre |-> [pg |-> None, redis |-> None, s3 |-> None],
             calls |-> <<>>, outcome |-> "ok", result |-> RNone,
             raised |-> FALSE, query |-> <<>>, object |-> <<>>]

Init ==
  /\ FacadeInit
  /\ pc = "caller"
  /\ pg_status = FALSE
  /\ redis_status = FALSE
  /\ s3_status = FALSE
  /\ iterOps = <<>>

CallConnectPostgres ==
  /\ \E outcome \in {"ok", "connect_fail"} : connect_postgres(outcome)
  /\ UNCHANGED driverVars

CallConnectRedis ==
  /\ \E outcome \in {"ok", "construct_fail", "ping_fail"} :
        connect_redis(outcome)
  /\ UNCHANGED driverVars

CallConnectS3 ==
  /\ \E outcome \in {"ok", "construct_fail", "list_fail"} :
        connect_s3(outcome)
  /\ UNCHANGED driverVars

CallExecute ==
  /\ \E query \in Queries, rows \in RowSets,
        outcome \in {"ok", "cursor_fail", "execute_fail", "finish_fail"} :
        execute_postgres_query(query, outcome, rows)
  /\ UNCHANGED driverVars

CallSet ==
  /\ \E key \in Keys, value \in Values, expiry \in Expiries,
        outcome \in {"ok", "set_fail"} :
        set_redis_value(key, value, expiry, outcome)
  /\ UNCHANGED driverVars

CallGet ==
  /\ \E key \in Keys, reply \in CacheReplies, outcome \in {"ok", "get_fail"} :
        get_redis_value(key, outcome, reply)
  /\ UNCHANGED driverVars

CallUpload ==
  /\ \E file_path \in FilePaths, bucket_name \in Buckets,
        object_name \in ObjectNames, outcome \in {"ok", "upload_fail"} :
        upload_to_s3(file_path, bucket_name, object_name, outcome)
  /\ UNCHANGED driverVars

CallDownload ==
  /\ \E bucket_name \in Buckets, object_name \in {TestFile, <<"o">>},
        file_path \in {DownloadedFile}, outcome \in {"ok", "download_fail"} :
        download_from_s3(bucket_name, object_name, file_path, outcome)
  /\ UNCHANGED driverVars

CallClose ==
  /\ close_connections
  /\ UNCHANGED driverVars

Next ==
  \/ CallConnectPostgres
  \/ CallConnectRedis
  \/ CallConnectS3
  \/ CallExecute
  \/ CallSet
  \/ CallGet
  \/ CallUpload
  \/ CallDownload
  \/ CallClose

Spec == Init /\ [][Next]_vars

----------------------------------------------------------------------------
(* main(): the loop, one statement per step.  A facade call that raises,   *)
(* or a failed write of the local test file, ends the process.             *)

DriverInit ==
  /\ FacadeInit
  /\ pc = "construct"
  /\ pg_status = FALSE
  /\ redis_status = FALSE
  /\ s3_status = FALSE
  /\ iterOps = <<>>

\* Where main() continues after a facade call: nowhere if the call raised.
Continue(next) == IF last'.raised THEN "crashed" ELSE next

MainConstruct ==
  /\ pc = "construct"
  /\ DataConnector
  /\ iterOps' = <<>>
  /\ pc' = "connect_postgres"
  /\ UNCHANGED <<pg_status, redis_status, s3_status>>

MainConnectPostgres ==
  /\ pc = "connect_postgres"
  /\ \E outcome \in {"ok", "connect_fail"} : connect_postgres(outcome)
  /\ pg_status' = (last'.result = RTrue)
  /\ iterOps' = Append(iterOps, "connect_postgres")
  /\ pc' = Continue("connect_redis")
  /\ UNCHANGED <<redis_status, s3_status>>

MainConnectRedis ==
  /\ pc = "connect_redis"
  /\ \E outcome \in {"ok", "construct_fail", "ping_fail"} :
        connect_redis(outcome)
  /\ redis_status' = (last'.result = RTrue)
  /\ iterOps' = Append(iterOps, "connect_redis")
  /\ pc' = Continue("connect_s3")
  /\ UNCHANGED <<pg_status, s3_status>>

MainConnectS3 ==
  /\ pc = "connect_s3"
  /\ \E outcome \in {"ok", "construct_fail", "list_fail"} :
        connect_s3(outcome)
  /\ s3_status' = (last'.result = RTrue)
  /\ iterOps' = Append(iterOps, "connect_s3")
  /\ pc' = Continue("if_pg_status")
  /\ UNCHANGED <<pg_status, redis_status>>

MainIfPgStatus ==
  /\ pc = "if_pg_status"
  /\ pc' = IF pg_status THEN "create_table" ELSE "if_redis_status"
  /\ UNCHANGED <<facadeVars, pg_status, redis_status, s3_status, iterOps>>

\* One of the three example statements of main().
MainQuery(at, query, next) ==
  /\ pc = at
  /\ \E rows \in RowSets,
        outcome \in {"ok", "cursor_fail", "execute_fail", "finish_fail"} :
        execute_postgres_query(query, outcome, rows)
  /\ iterOps' = Append(iterOps, "execute_postgres_query")
  /\ pc' = Continue(next)
  /\ UNCHANGED <<pg_status, redis_status, s3_status>>

MainCreateTable == MainQuery("create_table", CreateQuery, "insert")

MainInsert == MainQuery("insert", InsertQuery, "select")

MainSelect == MainQuery("select", SelectQuery, "if_redis_status")

MainIfRedisStatus ==
  /\ pc = "if_redis_status"
  /\ pc' = IF redis_status THEN "set_redis_value" ELSE "if_s3_status"
  /\ UNCHANGED <<facadeVars, pg_status, redis_status, s3_status, iterOps>>

MainSetRedisValue ==
  /\ pc = "set_redis_value"
  /\ \E outcome \in {"ok", "set_fail"} :
        set_redis_value("example_key", "example_value", 3600, outcome)
  /\ iterOps' = Append(iterOps, "set_redis_value")
  /\ pc' = Continue("get_redis_value")
  /\ UNCHANGED <<pg_status, redis_status, s3_status>>

MainGetRedisValue ==
  /\ pc = "get_redis_value"
  /\ \E reply \in CacheReplies, outcome \in {"ok", "get_fail"} :
        get_redis_value("example_key", outcome, reply)
  /\ iterOps' = Append(iterOps, "get_redis_value")
  /\ pc' = Continue("if_s3_status")
  /\ UNCHANGED <<pg_status, redis_status, s3_status>>

MainIfS3Status ==
  /\ pc = "if_s3_status"
  /\ pc' = IF s3_status THEN "write_file" ELSE "close_connections"
  /\ UNCHANGED <<facadeVars, pg_status, redis_status, s3_status, iterOps>>

\* with open("test_file.txt", "w") as f: f.write(...), outside any try.
MainWriteFile ==
  /\ pc = "write_file"
  /\ \E outcome \in {"ok", "write_fail"} :
        pc' = IF outcome = "ok" THEN "upload_to_s3" ELSE "crashed"
  /\ UNCHANGED <<facadeVars, pg_status, redis_status, s3_status, iterOps>>

MainUpload ==
  /\ pc = "upload_to_s3"
  /\ \E bucket_name \in Buckets, outcome \in {"ok", "upload_fail"} :
        upload_to_s3(PathArg(TestFile), bucket_name, NoName, outcome)
  /\ iterOps' = Append(iterOps, "upload_to_s3")
  /\ pc' = Continue("download_from_s3")
  /\ UNCHANGED <<pg_status, redis_status, s3_status>>

MainDownload ==
  /\ pc = "download_from_s3"
  /\ \E bucket_name \in Buckets, outcome \in {"ok", "download_fail"} :
        download_from_s3(bucket_name, TestFile, DownloadedFile, outcome)
  /\ iterOps' = Append(iterOps, "download_from_s3")
  /\ pc' = Continue("close_connections")
  /\ UNCHANGED <<pg_status, redis_status, s3_status>>

MainClose ==
  /\ pc = "close_connections"
  /\ close_connections
  /\ iterOps' = Append(iterOps, "close_connections")
  /\ pc' = Continue("sleep")
  /\ UNCHANGED <<pg_status, redis_status, s3_status>>

\* time.sleep(3), then the next turn of while True.
MainSleep ==
  /\ pc = "sleep"
  /\ pc' = "construct"
  /\ UNCHANGED <<facadeVars, pg_status, redis_status, s3_status, iterOps>>

DriverNext ==
  \/ MainConstruct
  \/ MainConnectPostgres
  \/ MainConnectRedis
  \/ MainConnectS3
  \/ MainIfPgStatus
  \/ MainCreateTable
  \/ MainInsert
  \/ MainSelect
  \/ MainIfRedisStatus
  \/ MainSetRedisValue
  \/ MainGetRedisValue
  \/ MainIfS3Status
  \/ MainWriteFile
  \/ MainUpload
  \/ MainDownload
  \/ MainClose
  \/ MainSleep

DriverSpec == DriverInit /\ [][DriverNext]_vars

----------------------------------------------------------------------------
(* Properties.  `last' is overwritten by every facade call, so a state     *)
(* predicate over `last' and the handles is a postcondition of the call    *)
(* that returned last.                                                     *)

ConnectOps == {"connect_postgres", "connect_redis", "connect_s3"}

HandleOps == {"execute_postgres_query", "set_redis_value", "get_redis_value",
              "upload_to_s3", "download_from_s3"}

\* The service an operation talks to.
Service(op) ==
  CASE op \in {"connect_postgres", "execute_postgres_query"} -> "postgres"
    [] op \in {"connect_redis", "set_redis_value", "get_redis_value"} ->
         "redis"
    [] OTHER -> "s3"

\* The handle of a service in a record of handles.
HandleOf(h, service) ==
  CASE service = "postgres" -> h.pg
    [] service = "redis" -> h.redis
    [] OTHER -> h.s3

\* The failure sentinel the documentation gives each operation.
Sentinel(op) ==
  IF op \in {"execute_postgres_query", "get_redis_value"} THEN RNone
  ELSE RFalse

\* How often a client call occurs in the calls of the last operation.
Count(call) == Cardinality({i \in 1..Len(last.calls) : last.calls[i] = call})

\* C1: no facade operation lets an exception leave the facade; whatever
\* fails inside it, the operation returns its sentinel.
C1_NeverRaises == ~last.raised

\* C2: on a facade whose connect for a service was never called, every
\* handle-dependent operation of that service returns its failure sentinel,
\* calls no client, and leaves the three handles as they were.
C2_NotConnectedSentinel ==
  (last.op \in HandleOps /\ Service(last.op) \notin connectCalled) =>
     /\ last.result = Sentinel(last.op)
     /\ ~last.raised
     /\ last.calls = <<>>
     /\ Handles = last.pre

\* C2 witness: get_redis_value returned on a facade that had connected to
\* the relational store but never to the cache.
C2_Witness ==
  /\ last.op = "get_redis_value"
  /\ "redis" \notin connectCalled
  /\ postgres_conn # None
  /\ last.result = RNone

\* C3: after close_connections returns, the relational and the cache handle
\* are both unset.
C3_CloseClearsHandles ==
  last.op = "close_connections" =>
     postgres_conn = None /\ redis_client = None

\* C4: on a facade whose handle is unset, a connect that returns False
\* leaves the handle unset and a connect that returns True leaves it set.
C4_SetOnlyOnSuccess ==
  (last.op \in ConnectOps /\ HandleOf(last.pre, Service(last.op)) = None) =>
     /\ last.result = RFalse => HandleOf(Handles, Service(last.op)) = None
     /\ last.result = RTrue => HandleOf(Handles, Service(last.op)) # None

\* The statement, leading white space removed and upper-cased, begins with
\* SELECT.
BeginsWithSelect(query) ==
  StartsWith(Upper(SubSeq(query, FirstInk(query), Len(query))), SELECT)

\* C5: with the relational handle set and every client call succeeding,
\* execute_postgres_query returns the fetched rows and never commits for a
\* statement that begins with SELECT, and commits exactly once and returns
\* True, never rows, for any other statement.
C5_SelectOrCommit ==
  (/\ last.op = "execute_postgres_query"
   /\ last.pre.pg # None
   /\ last.outcome = "ok") =>
     IF BeginsWithSelect(last.query)
     THEN /\ last.result.kind = "rows"
          /\ last.result.val \in RowSets
          /\ Count("fetchall") = 1
          /\ Count("commit") = 0
     ELSE /\ last.result = RTrue
          /\ Count("commit") = 1
          /\ Count("fetchall") = 0

\* C5 witness: a lower-case select behind leading white space returned rows.
C5_Witness ==
  /\ last.op = "execute_postgres_query"
  /\ last.outcome = "ok"
  /\ last.query = <<" ","s","e","l","e","c","t"," ","1">>
  /\ last.result = RRows(<<"row1", "row2">>)

\* C6: after any sequence of connect calls, every connection or client that
\* was opened and not closed is the one its handle refers to.
C6_NoLeakedConnection ==
  /\ open_pg \subseteq {postgres_conn}
  /\ open_redis \subseteq {redis_client}

\* C7: the loop of main() has no terminated or crashed state.
C7_NeverTerminates == pc # "crashed"

\* C8: in an iteration where connect_postgres returned True and
\* connect_redis and connect_s3 returned False, the three statements run, no
\* cache or object-store operation is invoked, and close_connections calls
\* close on the relational connection only.
C8_OnlyPostgresClosed ==
  (pc = "sleep" /\ pg_status /\ ~redis_status /\ ~s3_status) =>
     /\ iterOps = <<"connect_postgres", "connect_redis", "connect_s3",
                    "execute_postgres_query", "execute_postgres_query",
                    "execute_postgres_query", "close_connections">>
     /\ last.calls = <<"postgres_conn.close">>

\* C9: close_connections on a facade with no handle set calls close on no
\* client, raises nothing and leaves the three handles unset; in every
\* state it leaves the object-store handle as it was.
C9_CloseFrame ==
  last.op = "close_connections" =>
     /\ s3_client = last.pre.s3
     /\ ~last.raised
     /\ (last.pre = [pg |-> None, redis |-> None, s3 |-> None] =>
           /\ last.calls = <<>>
           /\ Handles = last.pre)

\* C9 witness: close_connections returned on a facade whose three handles
\* were unset although a connect had been attempted.
C9_Witness ==
  /\ last.op = "close_connections"
  /\ last.pre = [pg |-> None, redis |-> None, s3 |-> None]
  /\ connectCalled # {}

\* C10: in the loop of main() at most one relational connection and at
\* most one cache client is open at any time, and none is open once the
\* iteration's close_connections has returned, until the next facade
\* connects.
C10_NoAccumulation ==
  /\ Cardinality(open_pg) <= 1
  /\ Cardinality(open_redis) <= 1
  /\ pc \in {"sleep", "construct", "connect_postgres"} =>
        open_pg = {} /\ open_redis = {}

\* C10 witness: an iteration that opened both a relational connection and a
\* cache client has closed both and reached the sleep.
C10_Witness ==
  /\ pc = "sleep"
  /\ pg_status
  /\ last.pre.redis # None
  /\ last.calls = <<"postgres_conn.close", "redis_client.close">>
  /\ open_pg = {}
  /\ open_redis = {}
====
